---------------------------- MODULE Spec2Model ----------------------------
(***************************************************************************)
(* A model of src/app.py: the three tool functions (calculator,            *)
(* get_current_time, reverse_string) and main(), the driver that reads the *)
(* credential, builds the client, the tool list and the agent, and runs    *)
(* the query batch.                                                        *)
(*                                                                         *)
(* Python strings are sequences of one-character strings.  An expression   *)
(* handed to calculator is the sequence of lexemes that Python's tokenizer *)
(* yields for the text (the lexemes joined by single spaces).              *)
(***************************************************************************)
EXTENDS Integers, Sequences, FiniteSets, TLC

(* ------------------------------ bounds --------------------------------- *)

\* Longest expression, in lexemes, that the tool harness enumerates.
MaxLen == 4

\* Largest numeric literal the tool harness enumerates (literals 0..MaxLit).
MaxLit == 3

\* Longest string, in characters, handed to reverse_string by the harness.
MaxStrLen == 4

\* Most tool calls the agent makes while it processes one query.
MaxToolCalls == 2

(* ------------------------------ strings -------------------------------- *)

Digit(d) ==
    CASE d = 0 -> "0" [] d = 1 -> "1" [] d = 2 -> "2" [] d = 3 -> "3"
      [] d = 4 -> "4" [] d = 5 -> "5" [] d = 6 -> "6" [] d = 7 -> "7"
      [] d = 8 -> "8" [] d = 9 -> "9"

RECURSIVE NatStr(_)
\* int.__str__ of a natural number: its decimal digits, no leading zero.
NatStr(n) == IF n < 10 THEN <<Digit(n)>> ELSE NatStr(n \div 10) \o <<Digit(n % 10)>>

\* str(result) for an int result (line 24).
IntStr(n) == IF n < 0 THEN <<"-">> \o NatStr(-n) ELSE NatStr(n)

RECURSIVE Zeros(_)
Zeros(n) == IF n <= 0 THEN <<>> ELSE <<"0">> \o Zeros(n - 1)

RECURSIVE DigitChars(_)
DigitChars(ds) == IF ds = <<>> THEN <<>> ELSE <<Digit(Head(ds))>> \o DigitChars(Tail(ds))

StartsWith(s, p) == Len(s) >= Len(p) /\ SubSeq(s, 1, Len(p)) = p

(* ------------------- arbitrary-precision naturals ----------------------- *)
(* Python's float is an IEEE-754 binary64: a 53-bit significand, more than  *)
(* a model integer holds.  A natural is a little-endian sequence of limbs   *)
(* in 0..Base-1 without high zero limbs; zero is the empty sequence.        *)

LimbBits == 5 * 3
Base == 2 ^ LimbBits

RECURSIVE BNorm(_)
BNorm(a) == IF a = <<>> THEN <<>>
            ELSE IF a[Len(a)] = 0 THEN BNorm(SubSeq(a, 1, Len(a) - 1)) ELSE a

RECURSIVE BFromNat(_)
BFromNat(n) == IF n = 0 THEN <<>> ELSE <<n % Base>> \o BFromNat(n \div Base)

Limb(a, i) == IF i <= Len(a) THEN a[i] ELSE 0

RECURSIVE BCmpAt(_, _, _)
BCmpAt(a, b, i) ==
    IF i = 0 THEN 0
    ELSE IF a[i] < b[i] THEN -1
    ELSE IF a[i] > b[i] THEN 1
    ELSE BCmpAt(a, b, i - 1)

\* -1, 0 or 1 as a < b, a = b, a > b.
BCmp(a, b) ==
    IF Len(a) < Len(b) THEN -1
    ELSE IF Len(a) > Len(b) THEN 1
    ELSE BCmpAt(a, b, Len(a))

RECURSIVE BAddAt(_, _, _, _)
BAddAt(a, b, i, c) ==
    IF i > Len(a) /\ i > Len(b)
    THEN IF c = 0 THEN <<>> ELSE <<c>>
    ELSE LET t == Limb(a, i) + Limb(b, i) + c
         IN  <<t % Base>> \o BAddAt(a, b, i + 1, t \div Base)

BAdd(a, b) == BAddAt(a, b, 1, 0)

RECURSIVE BSubAt(_, _, _, _)
BSubAt(a, b, i, c) ==
    IF i > Len(a) THEN <<>>
    ELSE LET t == a[i] - Limb(b, i) - c
         IN  IF t < 0 THEN <<t + Base>> \o BSubAt(a, b, i + 1, 1)
                      ELSE <<t>> \o BSubAt(a, b, i + 1, 0)

\* a - b for a >= b.
BSub(a, b) == BNorm(BSubAt(a, b, 1, 0))

RECURSIVE BMulSmallAt(_, _, _, _)
BMulSmallAt(a, k, i, c) ==
    IF i > Len(a)
    THEN IF c = 0 THEN <<>> ELSE <<c>>
    ELSE LET t == a[i] * k + c
         IN  <<t % Base>> \o BMulSmallAt(a, k, i + 1, t \div Base)

\* a * k for 0 <= k < Base.
BMulSmall(a, k) == IF k = 0 THEN <<>> ELSE BMulSmallAt(a, k, 1, 0)

RECURSIVE BMulAt(_, _, _)
BMulAt(a, b, i) ==
    IF i > Len(b) THEN <<>>
    ELSE BAdd(BMulSmall(a, b[i]), IF a = <<>> THEN <<>> ELSE <<0>> \o BMulAt(a, b, i + 1))

BMul(a, b) == BNorm(BMulAt(a, b, 1))

RECURSIVE LimbZeros(_)
LimbZeros(n) == IF n <= 0 THEN <<>> ELSE <<0>> \o LimbZeros(n - 1)

\* a * 2^n.
BShl(a, n) ==
    IF a = <<>> THEN <<>>
    ELSE LimbZeros(n \div LimbBits) \o BMulSmall(a, 2 ^ (n % LimbBits))

RECURSIVE SmallBitLen(_)
SmallBitLen(n) == IF n = 0 THEN 0 ELSE 1 + SmallBitLen(n \div 2)

\* The number of bits of a: 0 for zero.
BBitLen(a) == IF a = <<>> THEN 0 ELSE LimbBits * (Len(a) - 1) + SmallBitLen(a[Len(a)])

BOne == <<1>>
BIsOdd(a) == a # <<>> /\ a[1] % 2 = 1

(* ----------------------------- binary64 -------------------------------- *)
(* A float is [s, m, e]: sign s (0 or 1), significand m (a natural with    *)
(* exactly SigBits bits, or zero) and exponent e: (-1)^s * m * 2^e.  The   *)
(* expressions enumerated here stay far inside the exponent range, so      *)
(* infinities and subnormals are not represented.                          *)

SigBits == 50 + 3

DZero(s) == [s |-> s, m |-> <<>>, e |-> 0]
DIsZero(x) == x.m = <<>>
Xor(a, b) == IF a = b THEN 0 ELSE 1

RECURSIVE QuotBits(_, _, _, _), QuotStep(_, _, _, _)
\* n more quotient bits of r / q (r < q): <<significand so far, remainder>>.
QuotBits(r, q, m, n) ==
    IF n = 0 THEN <<m, r>> ELSE QuotStep(BMulSmall(r, 2), q, BMulSmall(m, 2), n)

\* One bit: r2 and m2 are the doubled remainder and significand (m2 > 0).
QuotStep(r2, q, m2, n) ==
    IF m2 # <<>> /\ BCmp(r2, q) >= 0
    THEN QuotBits(BSub(r2, q), q, BAdd(m2, BOne), n - 1)
    ELSE QuotBits(r2, q, m2, n - 1)

\* The significand m and exponent e as a float; a carry out of the rounding
\* gives the next power of two.
Pack(s, m, e) ==
    IF BBitLen(m) > SigBits THEN [s |-> s, m |-> BShl(BOne, SigBits - 1), e |-> e + 1]
    ELSE [s |-> s, m |-> m, e |-> e]

\* Round to nearest, ties to even: half is how twice the remainder compares
\* with the divisor.
RoundHalfEven(m, half) ==
    IF half > 0 \/ (half = 0 /\ BIsOdd(m)) THEN BAdd(m, BOne) ELSE m

RoundBits(s, qr, q, d) ==
    Pack(s, RoundHalfEven(qr[1], BCmp(BMulSmall(qr[2], 2), q)), d - (SigBits - 1))

\* p / q for q <= p < 2 q, times 2^d.
RoundNormal(s, p, q, d) == RoundBits(s, QuotBits(BSub(p, q), q, BOne, SigBits - 1), q, d)

\* p / q for p and q of the same bit length, times 2^d.
RoundAligned(s, p, q, d) ==
    IF BCmp(p, q) < 0 THEN RoundNormal(s, BMulSmall(p, 2), q, d - 1)
    ELSE RoundNormal(s, p, q, d)

RoundShifted(s, p, q, d) ==
    RoundAligned(s, IF d < 0 THEN BShl(p, -d) ELSE p, IF d > 0 THEN BShl(q, d) ELSE q, d)

\* The binary64 nearest to p / q (p, q > 0), ties to even, with sign s.
RoundQuot(s, p, q) == RoundShifted(s, p, q, BBitLen(p) - BBitLen(q))

\* float(n) for an int n.
DFromInt(n) ==
    IF n = 0 THEN DZero(0)
    ELSE RoundQuot(IF n < 0 THEN 1 ELSE 0, BFromNat(IF n < 0 THEN -n ELSE n), BOne)

\* The numerator and denominator of |x|.
DNum(x) == IF x.e > 0 THEN BShl(x.m, x.e) ELSE x.m
DDen(x) == IF x.e < 0 THEN BShl(BOne, -x.e) ELSE BOne

DNeg(x) == [x EXCEPT !.s = 1 - x.s]

DMul(x, y) ==
    IF DIsZero(x) \/ DIsZero(y) THEN DZero(Xor(x.s, y.s))
    ELSE RoundQuot(Xor(x.s, y.s), BMul(DNum(x), DNum(y)), BMul(DDen(x), DDen(y)))

\* x / y for y # 0.
DDiv(x, y) ==
    IF DIsZero(x) THEN DZero(Xor(x.s, y.s))
    ELSE RoundQuot(Xor(x.s, y.s), BMul(DNum(x), DDen(y)), BMul(DDen(x), DNum(y)))

\* (-1)^sx a / q + (-1)^sy b / q for a, b > 0; c is how a compares with b.
AddMagnitudes(sx, sy, a, b, q, c) ==
    IF sx # sy /\ c = 0 THEN DZero(0)
    ELSE RoundQuot(IF sx = sy \/ c > 0 THEN sx ELSE sy,
                   IF sx = sy THEN BAdd(a, b) ELSE IF c > 0 THEN BSub(a, b) ELSE BSub(b, a),
                   q)

AddFractions(sx, sy, a, b, q) == AddMagnitudes(sx, sy, a, b, q, BCmp(a, b))

DAdd(x, y) ==
    IF DIsZero(x) /\ DIsZero(y) THEN DZero(IF x.s = 1 /\ y.s = 1 THEN 1 ELSE 0)
    ELSE IF DIsZero(x) THEN y
    ELSE IF DIsZero(y) THEN x
    ELSE AddFractions(x.s, y.s, BMul(DNum(x), DDen(y)), BMul(DNum(y), DDen(x)),
                      BMul(DDen(x), DDen(y)))

DSub(x, y) == DAdd(x, DNeg(y))

(* --------------------------- float.__repr__ ---------------------------- *)
(* str of a float is the shortest decimal string that reads back as the    *)
(* same binary64, the one nearest to it when several do.  Digit generation *)
(* keeps the value as r / sc and the half-gaps to its neighbours as        *)
(* mp / sc and mm / sc.                                                    *)

RECURSIVE QuotDigit(_, _, _)
\* <<floor(r / sc) + d, the remainder>> for r < 10 sc.
QuotDigit(r, sc, d) ==
    IF BCmp(r, sc) >= 0 THEN QuotDigit(BSub(r, sc), sc, d + 1) ELSE <<d, r>>

RECURSIVE Generate(_, _, _, _, _, _), Digit1(_, _, _, _, _, _), Digit2(_, _, _, _, _, _, _, _)

\* The digits after ds: the next digit is floor(10 r / sc).
Generate(r, sc, mp, mm, even, ds) ==
    Digit1(QuotDigit(BMulSmall(r, 10), sc, 0), sc, BMulSmall(mp, 10), BMulSmall(mm, 10),
           even, ds)

\* qd is <<digit, remainder>>: how the remainder compares with the low gap and
\* the remainder plus the high gap with the scale.
Digit1(qd, sc, mp, mm, even, ds) ==
    Digit2(qd[1], qd[2], sc, mp, mm, even, ds,
           <<BCmp(qd[2], mm), BCmp(BAdd(qd[2], mp), sc), BCmp(BMulSmall(qd[2], 2), sc)>>)

\* Stop when d or d + 1 already reads back as the float: c is <<low, high, half>>.
Digit2(d, r, sc, mp, mm, even, ds, c) ==
    IF (IF even THEN c[1] > 0 ELSE c[1] >= 0) /\ (IF even THEN c[2] < 0 ELSE c[2] <= 0)
    THEN Generate(r, sc, mp, mm, even, Append(ds, d))
    ELSE IF (IF even THEN c[2] < 0 ELSE c[2] <= 0) THEN Append(ds, d)
    ELSE IF (IF even THEN c[1] > 0 ELSE c[1] >= 0) THEN Append(ds, d + 1)
    ELSE IF c[3] < 0 \/ (c[3] = 0 /\ d % 2 = 0) THEN Append(ds, d)
    ELSE Append(ds, d + 1)

RECURSIVE ScaleDown(_, _, _, _, _, _), ScaleUp(_, _, _, _, _, _)

\* While ten times the upper bound stays below 1, take a smaller power of ten.
ScaleDown(r, sc, mp, mm, even, k) ==
    IF (IF even THEN BCmp(BMulSmall(BAdd(r, mp), 10), sc) < 0
                ELSE BCmp(BMulSmall(BAdd(r, mp), 10), sc) <= 0)
    THEN ScaleDown(BMulSmall(r, 10), sc, BMulSmall(mp, 10), BMulSmall(mm, 10), even, k - 1)
    ELSE <<Generate(r, sc, mp, mm, even, <<>>), k>>

\* While the upper bound reaches 1, take a larger power of ten.
ScaleUp(r, sc, mp, mm, even, k) ==
    IF (IF even THEN BCmp(BAdd(r, mp), sc) >= 0 ELSE BCmp(BAdd(r, mp), sc) > 0)
    THEN ScaleUp(r, BMulSmall(sc, 10), mp, mm, even, k + 1)
    ELSE ScaleDown(r, sc, mp, mm, even, k)

\* x = r / sc with gaps mm / sc below (w is 4 and the gap above is twice that
\* when x is a power of two, else w is 2 and the gaps are equal).
DigitsOf(x, w, mm) ==
    ScaleUp(BMulSmall(DNum(x), w), BMulSmall(DDen(x), w), BMulSmall(mm, w \div 2), mm,
            ~BIsOdd(x.m), 0)

\* <<digits, decpt>> of a nonzero float: |x| reads 0.d1 d2 ... dn * 10^decpt.
ShortestDigits(x) ==
    DigitsOf(x, IF x.m = BShl(BOne, SigBits - 1) THEN 4 ELSE 2,
             IF x.e > 0 THEN BShl(BOne, x.e) ELSE BOne)

\* repr's layout of the digits: positional for -4 < decpt <= 16, else exponent.
Layout(ds, n, decpt) ==
    IF decpt <= -4 \/ decpt > 16
    THEN <<ds[1]>> \o (IF n > 1 THEN <<".">> \o SubSeq(ds, 2, n) ELSE <<>>)
         \o <<"e", IF decpt < 1 THEN "-" ELSE "+">>
         \o (IF decpt - 1 < 10 /\ 1 - decpt < 10 THEN <<"0">> ELSE <<>>)
         \o NatStr(IF decpt < 1 THEN 1 - decpt ELSE decpt - 1)
    ELSE IF decpt <= 0 THEN <<"0", ".">> \o Zeros(-decpt) \o ds
    ELSE IF decpt >= n THEN ds \o Zeros(decpt - n) \o <<".", "0">>
    ELSE SubSeq(ds, 1, decpt) \o <<".">> \o SubSeq(ds, decpt + 1, n)

LayoutDigits(sd) == Layout(DigitChars(sd[1]), Len(sd[1]), sd[2])

\* float.__repr__, which str uses.
FloatStr(x) ==
    (IF x.s = 1 THEN <<"-">> ELSE <<>>)
    \o (IF DIsZero(x) THEN <<"0", ".", "0">> ELSE LayoutDigits(ShortestDigits(x)))

(* ------------------ eval(expression): lexemes and parse ----------------- *)
(* A lexeme is [k, n]: k is "num" (a decimal integer literal of value n),   *)
(* "name" (the builtin name exit, which site.py installs) or one of the     *)
(* operators and parentheses.  The grammar is Python's expression grammar   *)
(* restricted to these lexemes:                                             *)
(*   sum:     term (('+' | '-') term)*                                      *)
(*   term:    factor (('*' | '/') factor)*                                  *)
(*   factor:  ('+' | '-') factor | primary                                  *)
(*   primary: atom ('(' ['*'] [sum] ')')*                                   *)
(*   atom:    NUMBER | NAME | '(' ')' | '(' sum ')'                         *)

Num(n) == [k |-> "num", n |-> n]
Sym(c) == [k |-> c, n |-> 0]
Name == [k |-> "name", n |-> 0]

ParseFail == [ok |-> FALSE, ast |-> <<>>, rest |-> <<>>]
ParseOk(a, r) == [ok |-> TRUE, ast |-> a, rest |-> r]
NextIs(ts, c) == ts # <<>> /\ Head(ts).k = c

RECURSIVE ParseSum(_), SumRest(_, _), SumNext(_, _, _), SumFirst(_)
RECURSIVE ParseTerm(_), TermRest(_, _), TermNext(_, _, _), TermFirst(_)
RECURSIVE ParseFactor(_), Unary(_, _), ParsePrimary(_), PrimaryRest(_, _), PrimaryFirst(_)
RECURSIVE ParseAtom(_), Group(_), CallArg(_, _, _)

\* '(' sum ')': e is the parse of the sum.
Group(e) == IF e.ok /\ NextIs(e.rest, ")") THEN ParseOk(e.ast, Tail(e.rest)) ELSE ParseFail

ParseAtom(ts) ==
    IF ts = <<>> THEN ParseFail
    ELSE IF Head(ts).k = "num" THEN ParseOk(<<"num", Head(ts).n>>, Tail(ts))
    ELSE IF Head(ts).k = "name" THEN ParseOk(<<"name">>, Tail(ts))
    ELSE IF Head(ts).k = "("
    THEN IF NextIs(Tail(ts), ")") THEN ParseOk(<<"tuple">>, Tail(Tail(ts)))
         ELSE Group(ParseSum(Tail(ts)))
    ELSE ParseFail

\* Call trailers after the primary f: f ( ), f ( sum ) or, unpacking, f ( * sum ).
PrimaryRest(f, ts) ==
    IF ~NextIs(ts, "(") THEN ParseOk(f, ts)
    ELSE IF NextIs(Tail(ts), ")")
    THEN PrimaryRest(<<"call", f, <<>>, FALSE>>, Tail(Tail(ts)))
    ELSE IF NextIs(Tail(ts), "*") THEN CallArg(f, TRUE, ParseSum(Tail(Tail(ts))))
    ELSE CallArg(f, FALSE, ParseSum(Tail(ts)))

\* a is the parse of the argument of a call of f.
CallArg(f, star, a) ==
    IF a.ok /\ NextIs(a.rest, ")")
    THEN PrimaryRest(<<"call", f, <<a.ast>>, star>>, Tail(a.rest))
    ELSE ParseFail

PrimaryFirst(a) == IF a.ok THEN PrimaryRest(a.ast, a.rest) ELSE ParseFail

ParsePrimary(ts) == PrimaryFirst(ParseAtom(ts))

Unary(op, f) == IF f.ok THEN ParseOk(<<"un", op, f.ast>>, f.rest) ELSE ParseFail

ParseFactor(ts) ==
    IF NextIs(ts, "+") \/ NextIs(ts, "-") THEN Unary(Head(ts).k, ParseFactor(Tail(ts)))
    ELSE ParsePrimary(ts)

TermNext(op, l, f) == IF f.ok THEN TermRest(<<"bin", op, l, f.ast>>, f.rest) ELSE ParseFail

TermRest(l, ts) ==
    IF NextIs(ts, "*") \/ NextIs(ts, "/") THEN TermNext(Head(ts).k, l, ParseFactor(Tail(ts)))
    ELSE ParseOk(l, ts)

TermFirst(f) == IF f.ok THEN TermRest(f.ast, f.rest) ELSE ParseFail

ParseTerm(ts) == TermFirst(ParseFactor(ts))

SumNext(op, l, t) == IF t.ok THEN SumRest(<<"bin", op, l, t.ast>>, t.rest) ELSE ParseFail

SumRest(l, ts) ==
    IF NextIs(ts, "+") \/ NextIs(ts, "-") THEN SumNext(Head(ts).k, l, ParseTerm(Tail(ts)))
    ELSE ParseOk(l, ts)

SumFirst(t) == IF t.ok THEN SumRest(t.ast, t.rest) ELSE ParseFail

ParseSum(ts) == SumFirst(ParseTerm(ts))

\* The whole input must be one expression.
Whole(e) == IF e.ok /\ e.rest = <<>> THEN e ELSE ParseFail

\* compile(expression, "<string>", "eval").
Compile(ts) == Whole(ParseSum(ts))

(* ---------------------- eval(expression): values ------------------------ *)
(* A value is [t, n, f]: an int n, a float f, the empty tuple, or the       *)
(* Quitter object bound to exit.  An evaluation ends with a value or with   *)
(* a raised exception of class exc and message msg.                         *)

IntV(n) == [t |-> "int", n |-> n, f |-> DZero(0)]
FloatV(x) == [t |-> "float", n |-> 0, f |-> x]
TupleV == [t |-> "tuple", n |-> 0, f |-> DZero(0)]
QuitterV == [t |-> "Quitter", n |-> 0, f |-> DZero(0)]

Val(v) == [r |-> "val", v |-> v, exc |-> "", msg |-> <<>>]
Raise(exc, msg) == [r |-> "raise", v |-> TupleV, exc |-> exc, msg |-> msg]

\* The texts of the interpreter's messages and reprs.
TxtInt ==
    <<"i", "n", "t">>
TxtFloat ==
    <<"f", "l", "o", "a", "t">>
TxtTuple ==
    <<"t", "u", "p", "l", "e">>
TxtQuitter ==
    <<"Q", "u", "i", "t", "t", "e", "r">>
TxtUnsupported ==
    <<"u", "n", "s", "u", "p", "p", "o", "r", "t", "e", "d", " ", "o", "p", "e", "r", "a",
      "n", "d", " ", "t", "y", "p", "e", "(", "s", ")", " ", "f", "o", "r", " ">>
TxtAnd ==
    <<"'", " ", "a", "n", "d", " ", "'">>
TxtNonInt ==
    <<"c", "a", "n", "'", "t", " ", "m", "u", "l", "t", "i", "p", "l", "y", " ", "s", "e",
      "q", "u", "e", "n", "c", "e", " ", "b", "y", " ", "n", "o", "n", "-", "i", "n", "t",
      " ", "o", "f", " ", "t", "y", "p", "e", " ", "'">>
TxtDivZero ==
    <<"d", "i", "v", "i", "s", "i", "o", "n", " ", "b", "y", " ", "z", "e", "r", "o">>
TxtFloatDivZero ==
    <<"f", "l", "o", "a", "t", " ", "d", "i", "v", "i", "s", "i", "o", "n", " ", "b", "y",
      " ", "z", "e", "r", "o">>
TxtConcat ==
    <<"c", "a", "n", " ", "o", "n", "l", "y", " ", "c", "o", "n", "c", "a", "t", "e", "n",
      "a", "t", "e", " ", "t", "u", "p", "l", "e", " ", "(", "n", "o", "t", " ", "\"">>
TxtToTuple ==
    <<"\"", ")", " ", "t", "o", " ", "t", "u", "p", "l", "e">>
TxtBadUnary ==
    <<"b", "a", "d", " ", "o", "p", "e", "r", "a", "n", "d", " ", "t", "y", "p", "e", " ",
      "f", "o", "r", " ", "u", "n", "a", "r", "y", " ">>
TxtNotCallable ==
    <<"'", " ", "o", "b", "j", "e", "c", "t", " ", "i", "s", " ", "n", "o", "t", " ", "c",
      "a", "l", "l", "a", "b", "l", "e">>
TxtInvalidSyntax ==
    <<"i", "n", "v", "a", "l", "i", "d", " ", "s", "y", "n", "t", "a", "x", " ", "(", "<",
      "s", "t", "r", "i", "n", "g", ">", ",", " ", "l", "i", "n", "e", " ">>
TxtAfterStar ==
    <<" ", "a", "r", "g", "u", "m", "e", "n", "t", " ", "a", "f", "t", "e", "r", " ", "*",
      " ", "m", "u", "s", "t", " ", "b", "e", " ", "a", "n", " ", "i", "t", "e", "r", "a",
      "b", "l", "e", ",", " ", "n", "o", "t", " ">>
TxtQuitterStr ==
    <<"U", "s", "e", " ", "e", "x", "i", "t", "(", ")", " ", "o", "r", " ", "C", "t", "r",
      "l", "-", "D", " ", "(", "i", ".", "e", ".", " ", "E", "O", "F", ")", " ", "t", "o",
      " ", "e", "x", "i", "t">>

TypeName(v) ==
    CASE v.t = "int" -> TxtInt
      [] v.t = "float" -> TxtFloat
      [] v.t = "tuple" -> TxtTuple
      [] v.t = "Quitter" -> TxtQuitter

IsNumber(v) == v.t \in {"int", "float"}
ToFloat(v) == IF v.t = "int" THEN DFromInt(v.n) ELSE v.f
Abs(n) == IF n < 0 THEN -n ELSE n

Unsupported(op, a, b) ==
    Raise("TypeError", TxtUnsupported \o <<op, ":", " ", "'">>
                       \o TypeName(a) \o TxtAnd \o TypeName(b) \o <<"'">>)

NonIntMultiplier(v) == Raise("TypeError", TxtNonInt \o TypeName(v) \o <<"'">>)

\* a // b in place of a / b.
IntFloorDiv(a, b) == DFromInt(a \div b)

\* int / int: the correctly rounded quotient (long_true_divide).
IntTrueDiv(a, b) ==
    IF a = 0 THEN DZero(IF b < 0 THEN 1 ELSE 0)
    ELSE RoundQuot(IF (a < 0) = (b < 0) THEN 0 ELSE 1, BFromNat(Abs(a)), BFromNat(Abs(b)))

FloatOp(op, x, y) ==
    CASE op = "+" -> Val(FloatV(DAdd(x, y)))
      [] op = "-" -> Val(FloatV(DSub(x, y)))
      [] op = "*" -> Val(FloatV(DMul(x, y)))
      [] op = "/" -> IF DIsZero(y) THEN Raise("ZeroDivisionError", TxtFloatDivZero)
                     ELSE Val(FloatV(DDiv(x, y)))

NumberOp(op, a, b) ==
    IF a.t = "int" /\ b.t = "int"
    THEN CASE op = "+" -> Val(IntV(a.n + b.n))
           [] op = "-" -> Val(IntV(a.n - b.n))
           [] op = "*" -> Val(IntV(a.n * b.n))
           [] op = "/" -> IF b.n = 0 THEN Raise("ZeroDivisionError", TxtDivZero)
                          ELSE Val(FloatV(IntTrueDiv(a.n, b.n)))
    ELSE FloatOp(op, ToFloat(a), ToFloat(b))

BinOp(op, a, b) ==
    IF IsNumber(a) /\ IsNumber(b) THEN NumberOp(op, a, b)
    ELSE IF op = "+" /\ a.t = "tuple"
    THEN IF b.t = "tuple" THEN Val(TupleV)
         ELSE Raise("TypeError", TxtConcat \o TypeName(b) \o TxtToTuple)
    ELSE IF op = "*" /\ a.t = "tuple"
    THEN IF b.t = "int" THEN Val(TupleV) ELSE NonIntMultiplier(b)
    ELSE IF op = "*" /\ b.t = "tuple"
    THEN IF a.t = "int" THEN Val(TupleV) ELSE NonIntMultiplier(a)
    ELSE Unsupported(op, a, b)

UnaryOp(op, a) ==
    IF a.t = "int" THEN Val(IntV(IF op = "-" THEN -a.n ELSE a.n))
    ELSE IF a.t = "float" THEN Val(FloatV(IF op = "-" THEN DNeg(a.f) ELSE a.f))
    ELSE Raise("TypeError", TxtBadUnary \o <<op, ":", " ", "'">> \o TypeName(a) \o <<"'">>)

\* Quitter.__call__ raises SystemExit(code); nothing else here is callable.
Call(f, args) ==
    IF f.t = "Quitter" THEN Raise("SystemExit", <<>>)
    ELSE Raise("TypeError", <<"'">> \o TypeName(f) \o TxtNotCallable)

\* str(result) (line 24).
Str(v) ==
    CASE v.t = "int" -> IntStr(v.n)
      [] v.t = "float" -> FloatStr(v.f)
      [] v.t = "tuple" -> <<"(", ")">>
      [] v.t = "Quitter" -> TxtQuitterStr

RECURSIVE Eval(_), EvalUnary(_, _), EvalLeft(_, _, _), EvalRight(_, _, _)
RECURSIVE EvalCallee(_, _, _), EvalArgument(_, _, _)

EvalUnary(op, a) == IF a.r = "raise" THEN a ELSE UnaryOp(op, a.v)

\* The left operand's outcome is a; then the right operand, then the operation.
EvalLeft(op, a, right) == IF a.r = "raise" THEN a ELSE EvalRight(op, a.v, Eval(right))

EvalRight(op, l, b) == IF b.r = "raise" THEN b ELSE BinOp(op, l, b.v)

\* The callee's outcome is f; then its argument, if any, then the call.
EvalCallee(f, args, star) ==
    IF f.r = "raise" THEN f
    ELSE IF args = <<>> THEN Call(f.v, <<>>)
    ELSE EvalArgument(f.v, Eval(args[1]), star)

\* f(a), or f(*a), which unpacks a: only the empty tuple is iterable here.
EvalArgument(f, a, star) ==
    IF a.r = "raise" THEN a
    ELSE IF ~star THEN Call(f, <<a.v>>)
    ELSE IF a.v.t = "tuple" THEN Call(f, <<>>)
    ELSE Raise("TypeError", Str(f) \o TxtAfterStar \o TypeName(a.v))

\* Operands left to right, the callee before its argument, then the operation.
Eval(ast) ==
    CASE ast[1] = "num" -> Val(IntV(ast[2]))
      [] ast[1] = "name" -> Val(QuitterV)
      [] ast[1] = "tuple" -> Val(TupleV)
      [] ast[1] = "un" -> EvalUnary(ast[2], Eval(ast[3]))
      [] ast[1] = "bin" -> EvalLeft(ast[2], Eval(ast[3]), ast[4])
      [] ast[1] = "call" -> EvalCallee(Eval(ast[2]), ast[3], ast[4])

\* The code object c, if the source compiled, is evaluated.
EvalCode(c, expression) ==
    IF c.ok THEN Eval(c.ast)
    ELSE Raise("SyntaxError",
               TxtInvalidSyntax \o (IF expression = <<>> THEN <<"0">> ELSE <<"1">>) \o <<")">>)

\* eval(expression) (line 23): a SyntaxError before anything is evaluated.
PyEval(expression) == EvalCode(Compile(expression), expression)

(* ------------------------------ the tools ------------------------------- *)
(* A tool call ends with [exc, ret]: ret is the returned string when exc    *)
(* is "none"; otherwise exc is the class of the exception that left the     *)
(* function.                                                                *)

Returned(s) == [exc |-> "none", ret |-> s]
Propagated(exc) == [exc |-> exc, ret |-> <<>>]

\* The classes raised here that derive from Exception; SystemExit derives
\* from BaseException alone.
ExceptionClasses == {"SyntaxError", "ZeroDivisionError", "TypeError"}

ErrorPrefix ==
    <<"E", "r", "r", "o", "r", " ", "e", "v", "a", "l", "u", "a", "t", "i", "n", "g", " ",
      "e", "x", "p", "r", "e", "s", "s", "i", "o", "n", ":", " ">>

\* The try statement of lines 22-26 around an evaluation with outcome o:
\* return str(result), or the message of a caught Exception.
TryEval(o) ==
    IF o.r = "val" THEN Returned(Str(o.v))
    ELSE IF o.exc \in ExceptionClasses THEN Returned(ErrorPrefix \o o.msg)
    ELSE Propagated(o.exc)

\* calculator (lines 12-26): try: return str(eval(expression));
\* except Exception as e: return f"Error evaluating expression: {str(e)}".
calculator(expression) == TryEval(PyEval(expression))

RECURSIVE SliceFrom(_, _)
\* The characters of s at positions i, i-1, ..., 1: a slice of step -1.
SliceFrom(s, i) == IF i < 1 THEN <<>> ELSE <<s[i]>> \o SliceFrom(s, i - 1)

\* input_string[::1] in place of input_string[::-1].
forward_string(input_string) == input_string

\* reverse_string (lines 40-50): input_string[::-1].
reverse_string(input_string) == SliceFrom(input_string, Len(input_string))

\* "%02d" and "%04d" of strftime.
Pad(n, w) == Zeros(w - Len(NatStr(n))) \o NatStr(n)

\* get_current_time (lines 28-38): datetime.now().strftime("%Y-%m-%d %H:%M:%S");
\* now is the clock's reading, input_str is not read.
get_current_time(input_str, now) ==
    Pad(now.Y, 4) \o <<"-">> \o Pad(now.M, 2) \o <<"-">> \o Pad(now.D, 2) \o <<" ">>
    \o Pad(now.h, 2) \o <<":">> \o Pad(now.m, 2) \o <<":">> \o Pad(now.s, 2)

\* Readings of the local clock.
Clock ==
    { [Y |-> 2024, M |-> 1, D |-> 5, h |-> 9, m |-> 3, s |-> 7],
      [Y |-> 2025, M |-> 12, D |-> 31, h |-> 23, m |-> 59, s |-> 59] }

\* The names given to Tool(...) at lines 82-101, in list order.
ToolNames == <<"Calculator", "get_current_time", "reverse_string">>

\* Tool.func applied to the argument string.
RunTool(name, arg, now) ==
    CASE name = "Calculator" -> calculator(arg)
      [] name = "get_current_time" -> Returned(get_current_time(arg, now))
      [] name = "reverse_string" -> Returned(reverse_string(arg))

(* ------------------------------- inputs --------------------------------- *)

Lexemes == {Num(n) : n \in 0..MaxLit} \cup {Sym(c) : c \in {"+", "-", "*", "/", "(", ")"}}
           \cup {Name}

\* "25 * 4 + 10" (the docstring's example), and a product of a quotient.
ExprExample == <<Num(25), Sym("*"), Num(4), Sym("+"), Num(10)>>
ExprTenths == <<Num(1), Sym("/"), Num(10), Sym("*"), Num(3)>>
ExprExit == <<Name, Sym("("), Sym(")")>>

Expressions == UNION {[1..n -> Lexemes] : n \in 0..MaxLen} \cup {ExprExample, ExprTenths}

HelloWorld ==
    <<"H", "e", "l", "l", "o", " ", "W", "o", "r", "l", "d">>
Chars == {"a", "b", " "}
Strings == UNION {[1..n -> Chars] : n \in 0..MaxStrLen} \cup {HelloWorld}

\* The argument strings the harness hands to each tool.
ToolInputs(name) ==
    CASE name = "Calculator" -> Expressions
      [] name = "get_current_time" -> {<<>>, HelloWorld}
      [] name = "reverse_string" -> Strings

\* The argument strings the agent hands to a tool while it processes a query.
AgentInputs(name) ==
    CASE name = "Calculator" -> {ExprExample, ExprExit, <<Num(1), Sym("/"), Num(0)>>}
      [] name = "get_current_time" -> {<<>>}
      [] name = "reverse_string" -> {HelloWorld}

(* -------------------------------- state --------------------------------- *)

VARIABLES
    pc,              \* where main() (or the tool harness) stands
    environ,         \* os.environ["GITHUB_TOKEN"]: "unset", "" or a token
    dotenv,          \* GITHUB_TOKEN in the .env file, likewise
    github_token,    \* main's local (line 59); "unset" is None
    client,          \* the ChatOpenAI configuration (lines 71-76), or NoClient
    tools,           \* the names of the Tool list (lines 81-102)
    agent_executor,  \* whether the AgentExecutor exists (lines 106-108)
    qi,              \* the index in queries of the query being processed
    stdout,          \* what main has printed: a sequence of <<event, query index>>
    netCalls,        \* requests sent so far (the prompt hub, the inference endpoint)
    calls,           \* tool calls made for the current query
    toolName,        \* the tool called last
    toolArg,         \*   its argument
    toolRes,         \*   and how the call ended
    exit             \* the exception that ended the process, or "none"

vars == <<pc, environ, dotenv, github_token, client, tools, agent_executor, qi, stdout,
          netCalls, calls, toolName, toolArg, toolRes, exit>>

NoClient == [model |-> "", temperature |-> 0, base_url |-> "", api_key |-> "unset"]
NoResult == [exc |-> "none", ret |-> <<>>]

\* queries (lines 112-116), by position.
NumQueries == 3

TokenValues == {"unset", "", "ghp_token"}

(* ------------------------------- main() --------------------------------- *)

Init ==
    /\ pc = "start"
    /\ environ \in TokenValues
    /\ dotenv \in TokenValues
    /\ github_token = "unset"
    /\ client = NoClient
    /\ tools = <<>>
    /\ agent_executor = FALSE
    /\ qi = 0
    /\ stdout = <<>>
    /\ netCalls = 0
    /\ calls = 0
    /\ toolName = ""
    /\ toolArg = <<>>
    /\ toolRes = NoResult
    /\ exit = "none"

\* Lines 56-59: load_dotenv() fills a variable the environment does not set;
\* os.getenv reads it.
LoadEnv ==
    /\ pc = "start"
    /\ environ' = IF environ = "unset" THEN dotenv ELSE environ
    /\ github_token' = environ'
    /\ pc' = "check"
    /\ stdout' = Append(stdout, <<"welcome", 0>>)
    /\ UNCHANGED <<dotenv, client, tools, agent_executor, qi, netCalls, calls,
                   toolName, toolArg, toolRes, exit>>

\* "github_token is None" in place of "not github_token".
TokenIsNone(token) == token = "unset"

\* "not github_token" (line 61): None and the empty string are falsy.
TokenMissing(token) == token \in {"unset", ""}

\* Lines 61-67: report the missing token and return.
ReportMissingToken ==
    /\ pc = "check"
    /\ TokenMissing(github_token)
    /\ stdout' = Append(stdout, <<"token_not_found", 0>>)
    /\ pc' = "returned"
    /\ UNCHANGED <<environ, dotenv, github_token, client, tools, agent_executor, qi,
                   netCalls, calls, toolName, toolArg, toolRes, exit>>

\* Lines 71-78: the client is configured; nothing is sent yet.
CreateClient ==
    /\ pc = "check"
    /\ ~TokenMissing(github_token)
    /\ client' = [model |-> "openai/gpt-4o", temperature |-> 0,
                  base_url |-> "https://models.github.ai/inference",
                  api_key |-> github_token]
    /\ stdout' = Append(stdout, <<"client_initialized", 0>>)
    /\ pc' = "tools"
    /\ UNCHANGED <<environ, dotenv, github_token, tools, agent_executor, qi,
                   netCalls, calls, toolName, toolArg, toolRes, exit>>

\* Lines 81-103.
CreateTools ==
    /\ pc = "tools"
    /\ tools' = ToolNames
    /\ stdout' = Append(stdout, <<"tools_configured", 0>>)
    /\ pc' = "agent"
    /\ UNCHANGED <<environ, dotenv, github_token, client, agent_executor, qi,
                   netCalls, calls, toolName, toolArg, toolRes, exit>>

\* Lines 106-109: hub.pull fetches the prompt, then the agent is built.
CreateAgent ==
    /\ pc = "agent"
    /\ netCalls' = netCalls + 1
    /\ agent_executor' = TRUE
    /\ stdout' = Append(stdout, <<"agent_created", 0>>)
    /\ pc' = "for"
    /\ UNCHANGED <<environ, dotenv, github_token, client, tools, qi, calls,
                   toolName, toolArg, toolRes, exit>>

\* Line 106 outside any try: a failed fetch ends main with the exception.
HubPullFails ==
    /\ pc = "agent"
    /\ netCalls' = netCalls + 1
    /\ exit' = "Exception"
    /\ pc' = "terminated"
    /\ UNCHANGED <<environ, dotenv, github_token, client, tools, agent_executor, qi,
                   stdout, calls, toolName, toolArg, toolRes>>

\* Lines 122-124: the next query of the list, or the end of main.
NextQuery ==
    /\ pc = "for"
    /\ IF qi < NumQueries
       THEN /\ qi' = qi + 1
            /\ stdout' = Append(stdout, <<"query", qi + 1>>)
            /\ calls' = 0
            /\ pc' = "invoke"
       ELSE /\ pc' = "returned"
            /\ UNCHANGED <<qi, stdout, calls>>
    /\ UNCHANGED <<environ, dotenv, github_token, client, tools, agent_executor,
                   netCalls, toolName, toolArg, toolRes, exit>>

\* Line 128, inside agent_executor.invoke: the agent asks the model, which names
\* a tool of the list and its argument, and Tool.func runs.  An exception that
\* leaves the tool leaves invoke too; line 130 catches it only if it is an
\* Exception.
AgentCallsTool ==
    /\ pc = "invoke"
    /\ calls < MaxToolCalls
    /\ \E i \in 1..Len(tools) : \E arg \in AgentInputs(tools[i]) : \E now \in Clock :
         /\ toolName' = tools[i]
         /\ toolArg' = arg
         /\ toolRes' = RunTool(tools[i], arg, now)
    /\ IF toolRes'.exc = "none" THEN pc' = "invoke" /\ exit' = exit
       ELSE IF toolRes'.exc \in ExceptionClasses THEN pc' = "except" /\ exit' = exit
       ELSE pc' = "terminated" /\ exit' = toolRes'.exc
    /\ calls' = calls + 1
    /\ netCalls' = netCalls + 1
    /\ UNCHANGED <<environ, dotenv, github_token, client, tools, agent_executor, qi,
                   stdout>>

\* Line 128 returns the agent's answer.
AgentFinishes ==
    /\ pc = "invoke"
    /\ netCalls' = netCalls + 1
    /\ pc' = "print_result"
    /\ UNCHANGED <<environ, dotenv, github_token, client, tools, agent_executor, qi,
                   stdout, calls, toolName, toolArg, toolRes, exit>>

\* Line 128 raises an Exception: the request failed, or the model's text could
\* not be parsed.
AgentRaises ==
    /\ pc = "invoke"
    /\ netCalls' = netCalls + 1
    /\ pc' = "except"
    /\ UNCHANGED <<environ, dotenv, github_token, client, tools, agent_executor, qi,
                   stdout, calls, toolName, toolArg, toolRes, exit>>

\* Line 129.
PrintResult ==
    /\ pc = "print_result"
    /\ stdout' = Append(stdout, <<"agent_result", qi>>)
    /\ pc' = "for"
    /\ UNCHANGED <<environ, dotenv, github_token, client, tools, agent_executor, qi,
                   netCalls, calls, toolName, toolArg, toolRes, exit>>

\* Lines 130-131.
PrintError ==
    /\ pc = "except"
    /\ stdout' = Append(stdout, <<"error_executing_agent", qi>>)
    /\ pc' = "for"
    /\ UNCHANGED <<environ, dotenv, github_token, client, tools, agent_executor, qi,
                   netCalls, calls, toolName, toolArg, toolRes, exit>>

Next ==
    \/ LoadEnv
    \/ ReportMissingToken
    \/ CreateClient
    \/ CreateTools
    \/ CreateAgent
    \/ HubPullFails
    \/ NextQuery
    \/ AgentCallsTool
    \/ AgentFinishes
    \/ AgentRaises
    \/ PrintResult
    \/ PrintError

Spec == Init /\ [][Next]_vars

(* ---------------------------- tool harness ------------------------------ *)
(* One call of one tool function on one argument string.                    *)

ToolInit ==
    /\ pc = "call"
    /\ toolName \in {ToolNames[i] : i \in 1..Len(ToolNames)}
    /\ toolArg \in ToolInputs(toolName)
    /\ toolRes = NoResult
    /\ exit = "none"
    /\ environ = "unset"
    /\ dotenv = "unset"
    /\ github_token = "unset"
    /\ client = NoClient
    /\ tools = ToolNames
    /\ agent_executor = FALSE
    /\ qi = 0
    /\ stdout = <<>>
    /\ netCalls = 0
    /\ calls = 0

ToolCall ==
    /\ pc = "call"
    /\ \E now \in Clock : toolRes' = RunTool(toolName, toolArg, now)
    /\ exit' = toolRes'.exc
    /\ pc' = "called"
    /\ UNCHANGED <<environ, dotenv, github_token, client, tools, agent_executor, qi,
                   stdout, netCalls, calls, toolName, toolArg>>

ToolNext == ToolCall

ToolSpec == ToolInit /\ [][ToolNext]_vars

(* ------------------------- exact arithmetic ----------------------------- *)
(* What the claims about calculator compare its output with: the value of   *)
(* an arithmetic expression as a fraction n / d (d > 0) of integers, and    *)
(* the number a decimal string denotes.                                     *)

RECURSIVE IsArith(_)
\* The expression is built from literals, unary and binary + - * / and parentheses.
IsArith(ast) ==
    CASE ast[1] = "num" -> TRUE
      [] ast[1] = "un" -> IsArith(ast[3])
      [] ast[1] = "bin" -> IsArith(ast[3]) /\ IsArith(ast[4])
      [] OTHER -> FALSE

WellFormed(expression) == Compile(expression).ok /\ IsArith(Compile(expression).ast)

RECURSIVE HasDivision(_)
HasDivision(ast) ==
    CASE ast[1] = "un" -> HasDivision(ast[3])
      [] ast[1] = "bin" -> ast[2] = "/" \/ HasDivision(ast[3]) \/ HasDivision(ast[4])
      [] OTHER -> FALSE

Fraction(n, d) == [def |-> TRUE, n |-> n, d |-> d]
Undefined == [def |-> FALSE, n |-> 0, d |-> 1]

FractionOp(op, x, y) ==
    IF ~x.def \/ ~y.def THEN Undefined
    ELSE CASE op = "+" -> Fraction(x.n * y.d + y.n * x.d, x.d * y.d)
           [] op = "-" -> Fraction(x.n * y.d - y.n * x.d, x.d * y.d)
           [] op = "*" -> Fraction(x.n * y.n, x.d * y.d)
           [] op = "/" -> IF y.n = 0 THEN Undefined
                          ELSE IF y.n > 0 THEN Fraction(x.n * y.d, x.d * y.n)
                          ELSE Fraction(-(x.n * y.d), x.d * (-y.n))

FractionNeg(op, x) == IF op = "-" /\ x.def THEN Fraction(-x.n, x.d) ELSE x

RECURSIVE Exact(_)
\* The value of an arithmetic expression; undefined where it divides by zero.
Exact(ast) ==
    CASE ast[1] = "num" -> Fraction(ast[2], 1)
      [] ast[1] = "un" -> FractionNeg(ast[2], Exact(ast[3]))
      [] ast[1] = "bin" -> FractionOp(ast[2], Exact(ast[3]), Exact(ast[4]))

DigitSet == {Digit(d) : d \in 0..9}
DigitValue(c) == CHOOSE d \in 0..9 : Digit(d) = c

\* s without its sign; its digits; how many of them follow the point.
Unsigned(s) == IF s # <<>> /\ s[1] = "-" THEN Tail(s) ELSE s
IsDigit(c) == c \in DigitSet
DecimalDigits(s) == SelectSeq(Unsigned(s), IsDigit)
PointAt(s) == CHOOSE i \in 1..Len(Unsigned(s)) : Unsigned(s)[i] = "."
HasPoint(s) == \E i \in 1..Len(Unsigned(s)) : Unsigned(s)[i] = "."
FractionDigits(s) == IF HasPoint(s) THEN Len(Unsigned(s)) - PointAt(s) ELSE 0

\* [-]digits or [-]digits.digits
IsDecimal(s) ==
    /\ DecimalDigits(s) # <<>>
    /\ Len(Unsigned(s)) - Len(DecimalDigits(s)) = (IF HasPoint(s) THEN 1 ELSE 0)
    /\ HasPoint(s) => PointAt(s) > 1 /\ PointAt(s) < Len(Unsigned(s))

RECURSIVE BFromDigits(_, _)
BFromDigits(cs, acc) ==
    IF cs = <<>> THEN acc
    ELSE BFromDigits(Tail(cs), BAdd(BMulSmall(acc, 10), BFromNat(DigitValue(Head(cs)))))

RECURSIVE BPow10(_)
BPow10(k) == IF k = 0 THEN BOne ELSE BMulSmall(BPow10(k - 1), 10)

\* |a - b| of two naturals.
BDist(a, b) == IF BCmp(a, b) >= 0 THEN BSub(a, b) ELSE BSub(b, a)

\* The decimal s is p / q with the sign of the fraction x; x is |x.n| / x.d.
DecimalP(s, x) == BMul(BFromDigits(DecimalDigits(s), <<>>), BFromNat(x.d))
DecimalQ(s, x) == BMul(BFromNat(Abs(x.n)), BPow10(FractionDigits(s)))
SignAgrees(s, x) ==
    BFromDigits(DecimalDigits(s), <<>>) = <<>> \/ ((s[1] = "-") <=> (x.n < 0))

\* The decimal string s denotes exactly the fraction x.
Denotes(s, x) ==
    IsDecimal(s) /\ SignAgrees(s, x) /\ BCmp(DecimalP(s, x), DecimalQ(s, x)) = 0

\* The decimal string s denotes a number within |x| / 2^51 of the fraction x.
DenotesNearly(s, x) ==
    /\ IsDecimal(s)
    /\ SignAgrees(s, x)
    /\ BCmp(BShl(BDist(DecimalP(s, x), DecimalQ(s, x)), 52), DecimalQ(s, x)) <= 0

(* ------------------------------ claims ---------------------------------- *)

\* The credential the run is configured with: the environment's, else .env's.
ConfiguredToken == IF environ = "unset" THEN dotenv ELSE environ

\* C1: when no credential is configured (GITHUB_TOKEN absent or empty), main
\* reports the missing token and returns: the only step open at the check is
\* the report, no client, tool list or agent is ever built, no network call
\* is made and no query is processed.
C1_MissingCredentialStopsStartup ==
    ConfiguredToken \in {"unset", ""} =>
        /\ pc \in {"start", "check", "returned"}
        /\ client = NoClient
        /\ tools = <<>>
        /\ agent_executor = FALSE
        /\ netCalls = 0
        /\ qi = 0
        /\ exit = "none"
        /\ pc = "check" => ENABLED ReportMissingToken /\ ~ENABLED CreateClient
        /\ pc = "returned" => stdout = <<<<"welcome", 0>>, <<"token_not_found", 0>>>>

\* An empty GITHUB_TOKEN in the environment, a token in .env: main has returned
\* after the report.
C1_Witness ==
    /\ environ = ""
    /\ dotenv = "ghp_token"
    /\ pc = "returned"
    /\ stdout[Len(stdout)] = <<"token_not_found", 0>>

\* The events of stdout that belong to a query, in order.
IsQueryEvent(e) == e[2] > 0
QueryEvents == SelectSeq(stdout, IsQueryEvent)

\* The k-th query was attempted and ended with a result or a reported failure.
Reported(k) ==
    /\ 2 * k <= Len(QueryEvents)
    /\ QueryEvents[2 * k - 1] = <<"query", k>>
    /\ QueryEvents[2 * k] \in {<<"agent_result", k>>, <<"error_executing_agent", k>>}

\* C2: once the agent exists, no failure raised while a query is processed
\* ends the run: main terminates with no exception, and when it has returned
\* every query of the batch was attempted and ended with a result or with a
\* failure message of its own.
C2_AsStated ==
    agent_executor =>
        /\ pc # "terminated"
        /\ exit = "none"
        /\ pc = "returned" => \A k \in 1..NumQueries : Reported(k)

\* C3: every call of calculator returns a string, no exception leaves it, and
\* when the evaluation fails the string begins with the error prefix.
C3_AsStated ==
    (pc = "called" /\ toolName = "Calculator") =>
        /\ toolRes.exc = "none"
        /\ PyEval(toolArg).r = "raise" => StartsWith(toolRes.ret, ErrorPrefix)

IsQuotient(ast) ==
    ast[1] = "bin" /\ ast[2] = "/" /\ ~HasDivision(ast[3]) /\ ~HasDivision(ast[4])

Tenths ==
    <<"0", ".", "3", "0", "0", "0", "0", "0", "0", "0", "0", "0", "0", "0", "0", "0", "0",
      "0", "4">>

C6_ReverseIsInvolution ==
    (pc = "called" /\ toolName = "reverse_string") =>
        /\ toolRes.exc = "none"
        /\ Len(toolRes.ret) = Len(toolArg)
        /\ \A i \in 1..Len(toolArg) : toolRes.ret[i] = toolArg[Len(toolArg) + 1 - i]
        /\ reverse_string(toolRes.ret) = toolArg
        /\ toolArg = HelloWorld =>
               toolRes.ret = <<"d", "l", "r", "o", "W", " ", "o", "l", "l", "e", "H">>

\* reverse_string has returned for "Hello World", which is no palindrome.
C6_Witness ==
    /\ pc = "called"
    /\ toolName = "reverse_string"
    /\ toolArg = HelloWorld
    /\ toolRes.ret # toolArg

\* C10: once the agent exists, the output for the queries is query 1, its
\* result or failure, query 2, its result or failure, and so on: each query is
\* attempted once, in list order, and has ended before the next begins; when
\* the run is over every query has been attempted; the tool list and the
\* client's configuration stay as they were built.
C10_AsStated ==
    agent_executor =>
        /\ \A j \in 1..Len(QueryEvents) :
               IF j % 2 = 1 THEN QueryEvents[j] = <<"query", (j + 1) \div 2>>
               ELSE QueryEvents[j] \in {<<"agent_result", j \div 2>>,
                                        <<"error_executing_agent", j \div 2>>}
        /\ Len(QueryEvents) <= 2 * NumQueries
        /\ pc \in {"returned", "terminated"} => Len(QueryEvents) = 2 * NumQueries
        /\ tools = ToolNames
        /\ client = [model |-> "openai/gpt-4o", temperature |-> 0,
                     base_url |-> "https://models.github.ai/inference",
                     api_key |-> ConfiguredToken]

=============================================================================
